---- MODULE Spec2Model ----
(***************************************************************************)
(* openwater/catchments.py: SemiLumpedCatchment.                           *)
(*                                                                         *)
(* get_template is modelled statement by statement (pc names the source    *)
(* line about to run), link_catchments and model_for as single steps.      *)
(* OWTemplate, OWLink and the node registry (openwater.nodes) are imported *)
(* by catchments.py and are not part of the file; they are modelled from   *)
(* their documented interface.                                             *)
(***************************************************************************)
EXTENDS Integers, Sequences, FiniteSets, TLC

VARIABLES self, pc, call, loc, template, transport, returned, raised, prev,
          graph, linked, query

vars == <<self, pc, call, loc, template, transport, returned, raised, prev,
          graph, linked, query>>

(* ------------------------------ bounds --------------------------------- *)

MaxHrus == 2
MaxCons == 2
MaxCgus == 2
MaxUnits == 5
MaxCatchments == 2
MaxLinkCalls == 2

(* --------------------------- identifiers ------------------------------- *)

ConNames == <<"N", "P", "TSS", "DOC", "EC", "TN", "TP", "Cl">>

HruId(i) == "H" \o ToString(i)
CguId(i) == "S" \o ToString(i)
ConId(i) == ConNames[i]

HruIds == {HruId(i) : i \in 1..MaxHrus}
CguIds == {CguId(i) : i \in 1..MaxCgus}
ConIds == {ConId(i) : i \in 1..MaxCons}

Range(s) == {s[i] : i \in DOMAIN s}

Reverse(s) == [i \in 1..Len(s) |-> s[Len(s) + 1 - i]]

RECURSIVE Join(_)
Join(args) == IF args = <<>> THEN "" ELSE "_" \o Head(args) \o Join(Tail(args))

Orderings(s) ==
    {[i \in DOMAIN s |-> s[p[i]]] :
        p \in {q \in [DOMAIN s -> DOMAIN s] : \A a, b \in DOMAIN s : a # b => q[a] # q[b]}}

(* ------------------------- objects and providers ----------------------- *)
(* A Python object as far as this file looks at it: the attributes it has  *)
(* (hasattr), its name, what calling it returns, what indexing it returns. *)

NoItems == <<>>

Object(attrs, name, fn, items) ==
    [attrs |-> attrs, name |-> name, fn |-> fn, items |-> items]

(* a model of the node registry: it has a name, it is neither callable     *)
(* nor subscriptable                                                       *)
Model(name) == Object({"name"}, name, "", NoItems)

NoObject == Object({}, "", "", NoItems)

Simhyd == Model("Simhyd")
EmcDwc == Model("EmcDwc")
Muskingum == Model("Muskingum")
LumpedConstituentRouting == Model("LumpedConstituentRouting")
DepthToRate == Model("DepthToRate")

(* a factory function: calling it with keys gives the model of those keys  *)
Factory(fn) == Object({"__call__"}, "", fn, NoItems)

(* a dict {key: model}                                                     *)
Mapping(items) == Object({"__getitem__"}, "", "", items)

(* an object that is callable and subscriptable at once                    *)
CallableMapping(fn, items) == Object({"__call__", "__getitem__"}, "", fn, items)

hasattr(o, a) == a \in o.attrs

\* calling a factory with the keys as its arguments
Invoke(o, args) == Model(o.fn \o Join(args))

PerKey(prefix, keys) == [k \in keys |-> Model(prefix \o "_" \o k)]

(* --------------------------- model_for --------------------------------- *)

Return(v) == [raised |-> "", value |-> v]
Raise(e) == [raised |-> e, value |-> NoObject]

(* a bug of lines 31-34: the keyed lookup tried before the call            *)
model_for_GetitemFirst(provider, args) ==
    IF hasattr(provider, "__getitem__")
    THEN IF args[1] \in DOMAIN provider.items
         THEN Return(provider.items[args[1]])
         ELSE Raise("KeyError")
    ELSE IF hasattr(provider, "__call__") THEN Return(Invoke(provider, args))
         ELSE Return(provider)

model_for(provider, args) ==
    IF hasattr(provider, "__call__") THEN Return(Invoke(provider, args))
    ELSE IF hasattr(provider, "__getitem__")
         THEN IF args[1] \in DOMAIN provider.items
              THEN Return(provider.items[args[1]])
              ELSE Raise("KeyError")
         ELSE Return(provider)

(* ------------------------ OWTemplate, OWLink --------------------------- *)

OWNode(model, process, hru, constituent, lu, component) ==
    [model |-> model, process |-> process, hru |-> hru,
     constituent |-> constituent, lu |-> lu, component |-> component]

NoNode == OWNode(NoObject, "", "", "", "", "")

OWTemplate == [nodes |-> <<>>, links |-> <<>>]

OWLink(from_node, from_output, to_node, to_input) ==
    [from_node |-> from_node, from_output |-> from_output,
     to_node |-> to_node, to_input |-> to_input]

(* add_node is idempotent on an identical identity and returns the handle, *)
(* which is the identity itself                                            *)
add_node(t, node) ==
    IF node \in Range(t.nodes) THEN t ELSE [t EXCEPT !.nodes = Append(@, node)]

add_link(t, link) == [t EXCEPT !.links = Append(@, link)]

(* --------------------------- the descriptor ---------------------------- *)

Descriptor(hrus, cgus, cgu_hrus, constituents, rr, cg, routing, transport_) ==
    [hrus |-> hrus, cgus |-> cgus, cgu_hrus |-> cgu_hrus,
     constituents |-> constituents,
     rr |-> rr, cg |-> cg, routing |-> routing, transport |-> transport_]

(* __init__; cgu_hrus is the dict as the sequence of its items             *)
Constructed ==
    Descriptor(<<"HRU">>, <<"CGU">>, << <<"CGU", "HRU">> >>, <<"Con">>,
               Simhyd, EmcDwc, Muskingum, LumpedConstituentRouting)

HruLists ==
    {[i \in 1..k |-> HruId(i)] : k \in 0..MaxHrus}
    \cup {Reverse([i \in 1..MaxHrus |-> HruId(i)])}
ConLists == {[i \in 1..k |-> ConId(i)] : k \in 0..MaxCons}
CguLists == {[i \in 1..k |-> CguId(i)] : k \in 0..MaxCgus}

CguHruDicts(cgus) ==
    {[i \in 1..Len(cgus) |-> <<cgus[i], m[i]>>] : m \in [1..Len(cgus) -> HruIds]}

RRProviders ==
    {Simhyd, Factory("rr_for"), Mapping(PerKey("RR", {HruId(1)}))}
CGProviders ==
    {EmcDwc, Factory("cg_for"), Mapping(PerKey("CG", {ConId(1)}))}
TransportProviders ==
    {LumpedConstituentRouting, Factory("transport_for"),
     Mapping(PerKey("Transport", {ConId(1)}))}

ProviderChoices ==
    {<<rr, EmcDwc, LumpedConstituentRouting>> : rr \in RRProviders}
    \cup {<<Simhyd, cg, LumpedConstituentRouting>> : cg \in CGProviders}
    \cup {<<Simhyd, EmcDwc, tr>> : tr \in TransportProviders}

(* the locals of get_template before it runs                              *)
Fresh ==
    [items |-> <<>>, con |-> "", hru |-> "", cgu |-> "",
     i_con |-> 0, i_hru |-> 0, j_con |-> 0, i_cgu |-> 0, cgus |-> <<>>,
     routing_node |-> NoNode, transport_node |-> NoNode,
     runoff_node |-> NoNode, runoff_scale_node |-> NoNode,
     quickflow_scale_node |-> NoNode, baseflow_scale_node |-> NoNode,
     gen_node |-> NoNode]

Init ==
    /\ self = Constructed
    /\ pc = "new"
    /\ call = 0
    /\ loc = Fresh
    /\ template = OWTemplate
    /\ transport = <<>>
    /\ returned = OWTemplate
    /\ raised = ""
    /\ prev = OWTemplate
    /\ graph = <<>>
    /\ linked = [upstream |-> 0, downstream |-> 0, before |-> 0]
    /\ query = [descriptor |-> Constructed, provider |-> NoObject, args |-> <<>>,
                result |-> Return(NoObject)]

(* the caller sets the public attributes of a fresh descriptor             *)
Configure ==
    /\ pc = "new"
    /\ \E hrus \in HruLists, cons \in ConLists, cgus \in CguLists, p \in ProviderChoices :
         /\ Len(hrus) + Len(cons) + Len(cgus) <= MaxUnits
         /\ \E d \in CguHruDicts(cgus) :
               self' = Descriptor(hrus, cgus, d, cons, p[1], p[2], Muskingum, p[3])
    /\ pc' = "idle"
    /\ UNCHANGED <<call, loc, template, transport, returned, raised, prev, graph, linked, query>>

(* ---------------------------- get_template ----------------------------- *)

(* the nodes get_template makes, by the add_node call that makes them      *)
RoutingNode(routing) == OWNode(routing, "FlowRouting", "", "", "", "")
TransportNode(model, con) == OWNode(model, "ConstituentRouting", "", con, "", "")
RunoffNode(model, hru) == OWNode(model, "RR", hru, "", "", "")
ScaleNode(hru, component) == OWNode(DepthToRate, "ArealScale", hru, "", "", component)

(* a bug of line 66: the generation node not tagged with its constituent   *)
GenerationNode_NoConstituent(model, con, cgu) ==
    OWNode(model, "ConstituentGeneration", "", "", cgu, "")

GenerationNode(model, con, cgu) ==
    OWNode(model, "ConstituentGeneration", "", con, cgu, "")

(* a bug of line 64: only the first source unit of the response unit      *)
CgusOf_FirstOnly(items, hru) ==
    LET OfHru(item) == item[2] = hru
        matching == SelectSeq(items, OfHru)
    IN IF matching = <<>> THEN <<>> ELSE <<matching[1][1]>>

(* [cgu for cgu,h in self.cgu_hrus.items() if h==hru]                      *)
CgusOf(items, hru) ==
    LET OfHru(item) == item[2] = hru
        matching == SelectSeq(items, OfHru)
    IN [i \in 1..Len(matching) |-> matching[i][1]]

(* a bug of line 62: the transport node named by the default model rather  *)
(* than looked up                                                          *)
TransportOf_ByDefaultModel(dict, con) == TransportNode(LumpedConstituentRouting, con)

(* transport[con]                                                          *)
TransportOf(dict, con) == dict[con]

(* a bug of line 67: quickflow taken from the runoff scaling node          *)
GenerationLinks_FromRunoffScale(l) ==
    <<OWLink(l.runoff_scale_node, "outflow", l.gen_node, "quickflow"),
      OWLink(l.baseflow_scale_node, "outflow", l.gen_node, "baseflow"),
      OWLink(l.gen_node, "totalLoad", l.transport_node, "lateralLoad")>>

(* lines 67-69                                                             *)
GenerationLinks(l) ==
    <<OWLink(l.quickflow_scale_node, "outflow", l.gen_node, "quickflow"),
      OWLink(l.baseflow_scale_node, "outflow", l.gen_node, "baseflow"),
      OWLink(l.gen_node, "totalLoad", l.transport_node, "lateralLoad")>>

Goto(label) == pc' = label

Frame == <<self, call, returned, prev, graph, linked, query>>

(* a call on the descriptor; the second call is on an equal descriptor,    *)
(* whose cgu_hrus dict may enumerate its items in any order                *)
L38 ==
    /\ \/ call = 0 /\ pc \in {"new", "idle"}
       \/ call = 1 /\ pc \in {"returned", "raised"}
    /\ \E items \in IF call = 0 THEN {self.cgu_hrus} ELSE Orderings(self.cgu_hrus) :
          loc' = [Fresh EXCEPT !.items = items]
    /\ call' = call + 1
    /\ prev' = returned
    /\ returned' = OWTemplate
    /\ raised' = ""
    /\ template' = OWTemplate
    /\ transport' = <<>>
    /\ Goto("L40")
    /\ UNCHANGED <<self, graph, linked, query>>

L40 ==
    /\ pc = "L40"
    /\ template' = add_node(template, RoutingNode(self.routing))
    /\ loc' = [loc EXCEPT !.routing_node = RoutingNode(self.routing)]
    /\ Goto("L42")
    /\ UNCHANGED <<Frame, transport, raised>>

L42 ==
    /\ pc = "L42"
    /\ IF loc.i_con < Len(self.constituents)
       THEN /\ loc' = [loc EXCEPT !.i_con = @ + 1, !.con = self.constituents[loc.i_con + 1]]
            /\ Goto("L44")
       ELSE /\ loc' = loc
            /\ Goto("L48")
    /\ UNCHANGED <<Frame, template, transport, raised>>

L44 ==
    /\ pc = "L44"
    /\ LET r == model_for(self.transport, <<loc.con>>)
       IN IF r.raised # ""
          THEN /\ raised' = r.raised
               /\ Goto("raised")
               /\ UNCHANGED <<template, loc>>
          ELSE /\ template' = add_node(template, TransportNode(r.value, loc.con))
               /\ loc' = [loc EXCEPT !.transport_node = TransportNode(r.value, loc.con)]
               /\ Goto("L45")
               /\ UNCHANGED raised
    /\ UNCHANGED <<Frame, transport>>

L45 ==
    /\ pc = "L45"
    /\ template' = add_link(template,
                     OWLink(loc.routing_node, "outflow", loc.transport_node, "outflow"))
    /\ Goto("L46")
    /\ UNCHANGED <<Frame, loc, transport, raised>>

L46 ==
    /\ pc = "L46"
    /\ transport' = [c \in DOMAIN transport \cup {loc.con} |->
                        IF c = loc.con THEN loc.transport_node ELSE transport[c]]
    /\ Goto("L42")
    /\ UNCHANGED <<Frame, loc, template, raised>>

L48 ==
    /\ pc = "L48"
    /\ IF loc.i_hru < Len(self.hrus)
       THEN /\ loc' = [loc EXCEPT !.i_hru = @ + 1, !.hru = self.hrus[loc.i_hru + 1]]
            /\ Goto("L49")
       ELSE /\ loc' = loc
            /\ Goto("L71")
    /\ UNCHANGED <<Frame, template, transport, raised>>

L49 ==
    /\ pc = "L49"
    /\ LET r == model_for(self.rr, <<loc.hru>>)
       IN IF r.raised # ""
          THEN /\ raised' = r.raised
               /\ Goto("raised")
               /\ UNCHANGED <<template, loc>>
          ELSE /\ template' = add_node(template, RunoffNode(r.value, loc.hru))
               /\ loc' = [loc EXCEPT !.runoff_node = RunoffNode(r.value, loc.hru)]
               /\ Goto("L50")
               /\ UNCHANGED raised
    /\ UNCHANGED <<Frame, transport>>

L50 ==
    /\ pc = "L50"
    /\ template' = add_node(template, ScaleNode(loc.hru, "Runoff"))
    /\ loc' = [loc EXCEPT !.runoff_scale_node = ScaleNode(loc.hru, "Runoff")]
    /\ Goto("L51")
    /\ UNCHANGED <<Frame, transport, raised>>

L51 ==
    /\ pc = "L51"
    /\ template' = add_node(template, ScaleNode(loc.hru, "Quickflow"))
    /\ loc' = [loc EXCEPT !.quickflow_scale_node = ScaleNode(loc.hru, "Quickflow")]
    /\ Goto("L52")
    /\ UNCHANGED <<Frame, transport, raised>>

L52 ==
    /\ pc = "L52"
    /\ template' = add_node(template, ScaleNode(loc.hru, "Baseflow"))
    /\ loc' = [loc EXCEPT !.baseflow_scale_node = ScaleNode(loc.hru, "Baseflow")]
    /\ Goto("L54")
    /\ UNCHANGED <<Frame, transport, raised>>

L54 ==
    /\ pc = "L54"
    /\ template' = add_link(template,
                     OWLink(loc.runoff_node, "runoff", loc.runoff_scale_node, "input"))
    /\ Goto("L55")
    /\ UNCHANGED <<Frame, loc, transport, raised>>

L55 ==
    /\ pc = "L55"
    /\ template' = add_link(template,
                     OWLink(loc.runoff_node, "quickflow", loc.quickflow_scale_node, "input"))
    /\ Goto("L56")
    /\ UNCHANGED <<Frame, loc, transport, raised>>

L56 ==
    /\ pc = "L56"
    /\ template' = add_link(template,
                     OWLink(loc.runoff_node, "baseflow", loc.baseflow_scale_node, "input"))
    /\ Goto("L58")
    /\ UNCHANGED <<Frame, loc, transport, raised>>

L58 ==
    /\ pc = "L58"
    /\ template' = add_link(template,
                     OWLink(loc.runoff_scale_node, "outflow", loc.routing_node, "lateral"))
    /\ loc' = [loc EXCEPT !.j_con = 0]
    /\ Goto("L60")
    /\ UNCHANGED <<Frame, transport, raised>>

L60 ==
    /\ pc = "L60"
    /\ IF loc.j_con < Len(self.constituents)
       THEN /\ loc' = [loc EXCEPT !.j_con = @ + 1, !.con = self.constituents[loc.j_con + 1]]
            /\ Goto("L62")
       ELSE /\ loc' = loc
            /\ Goto("L48")
    /\ UNCHANGED <<Frame, template, transport, raised>>

L62 ==
    /\ pc = "L62"
    /\ loc' = [loc EXCEPT !.transport_node = TransportOf(transport, loc.con)]
    /\ Goto("L63")
    /\ UNCHANGED <<Frame, template, transport, raised>>

L63 ==
    /\ pc = "L63"
    /\ template' = add_link(template,
                     OWLink(loc.runoff_scale_node, "outflow", loc.transport_node, "inflow"))
    /\ Goto("L64")
    /\ UNCHANGED <<Frame, loc, transport, raised>>

(* line 64: the list comprehension, evaluated once on entering the loop    *)
L64 ==
    /\ pc = "L64"
    /\ loc' = [loc EXCEPT !.cgus = CgusOf(loc.items, loc.hru), !.i_cgu = 0]
    /\ Goto("L64_next")
    /\ UNCHANGED <<Frame, template, transport, raised>>

(* line 64: the for loop over that list                                    *)
L64_next ==
    /\ pc = "L64_next"
    /\ IF loc.i_cgu < Len(loc.cgus)
       THEN /\ loc' = [loc EXCEPT !.i_cgu = @ + 1, !.cgu = loc.cgus[loc.i_cgu + 1]]
            /\ Goto("L66")
       ELSE /\ loc' = loc
            /\ Goto("L60")
    /\ UNCHANGED <<Frame, template, transport, raised>>

L66 ==
    /\ pc = "L66"
    /\ LET r == model_for(self.cg, <<loc.con, loc.cgu>>)
       IN IF r.raised # ""
          THEN /\ raised' = r.raised
               /\ Goto("raised")
               /\ UNCHANGED <<template, loc>>
          ELSE /\ template' = add_node(template, GenerationNode(r.value, loc.con, loc.cgu))
               /\ loc' = [loc EXCEPT !.gen_node = GenerationNode(r.value, loc.con, loc.cgu)]
               /\ Goto("L67")
               /\ UNCHANGED raised
    /\ UNCHANGED <<Frame, transport>>

L67 ==
    /\ pc = "L67"
    /\ template' = add_link(template, GenerationLinks(loc)[1])
    /\ Goto("L68")
    /\ UNCHANGED <<Frame, loc, transport, raised>>

L68 ==
    /\ pc = "L68"
    /\ template' = add_link(template, GenerationLinks(loc)[2])
    /\ Goto("L69")
    /\ UNCHANGED <<Frame, loc, transport, raised>>

L69 ==
    /\ pc = "L69"
    /\ template' = add_link(template, GenerationLinks(loc)[3])
    /\ Goto("L64_next")
    /\ UNCHANGED <<Frame, loc, transport, raised>>

L71 ==
    /\ pc = "L71"
    /\ returned' = template
    /\ Goto("returned")
    /\ UNCHANGED <<self, call, prev, graph, linked, query, loc, template, transport, raised>>

get_template ==
    \/ L38 \/ L40 \/ L42 \/ L44 \/ L45 \/ L46 \/ L48 \/ L49 \/ L50 \/ L51 \/ L52
    \/ L54 \/ L55 \/ L56 \/ L58 \/ L60 \/ L62 \/ L63 \/ L64 \/ L64_next
    \/ L66 \/ L67 \/ L68 \/ L69 \/ L71

Next == Configure \/ get_template

Spec == Init /\ [][Next]_vars

(* --------------------------- link_catchments --------------------------- *)

CatchmentIds == 1..MaxCatchments

(* the attribute o.name                                                    *)
NameOf(o) == IF hasattr(o, "name") THEN Return(o.name) ELSE Raise("AttributeError")

(* a label template '%d<rest>' is kept as <rest>; lt % id                  *)
Format(lt, id) == ToString(id) \o lt

FlowLinkage(routing_name) ==
    [lt |-> "-FlowRouting (" \o routing_name \o ")", src |-> "outflow", dest |-> "inflow"]

ConstituentLinkage(transport_name, c) ==
    [lt |-> "-ConstituentRouting-" \o c \o " (" \o transport_name \o ")",
     src |-> "outflowLoad", dest |-> "inflowLoad"]

(* lines 74-75; self.transport.name is read once per constituent           *)
Linkages(s) ==
    LET rn == NameOf(s.routing)
        tn == NameOf(s.transport)
    IN IF rn.raised # "" THEN Raise(rn.raised)
       ELSE IF s.constituents # <<>> /\ tn.raised # "" THEN Raise(tn.raised)
       ELSE Return(<<FlowLinkage(rn.value)>>
                   \o [i \in 1..Len(s.constituents) |->
                          ConstituentLinkage(tn.value, s.constituents[i])])

(* lines 77-79 for one linkage                                             *)
Edge(linkage, upstream, downstream) ==
    [src_node |-> Format(linkage.lt, downstream),
     dest_node |-> Format(linkage.lt, upstream),
     src |-> <<linkage.src>>, dest |-> <<linkage.dest>>]

(* graph.add_edge: the graph keeps every edge it was given                 *)
add_edge(g, e) == Append(g, e)

RECURSIVE AddEdges(_, _, _, _)
AddEdges(g, linkages, upstream, downstream) ==
    IF linkages = <<>> THEN g
    ELSE AddEdges(add_edge(g, Edge(Head(linkages), upstream, downstream)),
                  Tail(linkages), upstream, downstream)

link_catchments ==
    /\ pc \in {"new", "idle", "linked", "link_raised"}
    /\ call < MaxLinkCalls
    /\ \E upstream \in CatchmentIds, downstream \in CatchmentIds :
         LET l == Linkages(self)
         IN /\ linked' = [upstream |-> upstream, downstream |-> downstream,
                          before |-> Len(graph)]
            /\ IF l.raised # ""
               THEN /\ raised' = l.raised
                    /\ graph' = graph
                    /\ Goto("link_raised")
               ELSE /\ raised' = ""
                    /\ graph' = AddEdges(graph, l.value, upstream, downstream)
                    /\ Goto("linked")
    /\ call' = call + 1
    /\ UNCHANGED <<self, loc, template, transport, returned, prev, query>>

NextLink == Configure \/ link_catchments

SpecLink == Init /\ [][NextLink]_vars

(* ------------------------- model_for, called alone --------------------- *)

QueryProviders ==
    {Simhyd, EmcDwc, Muskingum, LumpedConstituentRouting, DepthToRate}
    \cup RRProviders \cup CGProviders \cup TransportProviders
    \cup {Mapping(PerKey("RR", HruIds)), Mapping(PerKey("CG", ConIds)),
          CallableMapping("rr_for", PerKey("RR", HruIds)),
          CallableMapping("cg_for", PerKey("CG", {ConId(1)}))}

QueryArgs ==
    {<<k>> : k \in HruIds \cup ConIds} \cup (ConIds \X CguIds)

(* self.model_for(provider, *args), as get_template calls it on the slots   *)
(* of the descriptor, or on any other provider                             *)
model_for_call ==
    /\ pc \in {"new", "idle"}
    /\ \E provider \in QueryProviders \cup {self.rr, self.cg, self.transport},
          args \in QueryArgs :
          query' = [descriptor |-> self, provider |-> provider, args |-> args,
                    result |-> model_for(provider, args)]
    /\ Goto("resolved")
    /\ UNCHANGED <<self, call, loc, template, transport, returned, raised, prev,
                   graph, linked>>

NextResolve == Configure \/ model_for_call

SpecResolve == Init /\ [][NextResolve]_vars

(* ------------------------------ properties ----------------------------- *)

R == Len(self.hrus)
C == Len(self.constituents)
S == Len(self.cgu_hrus)

Mapped(i) == self.cgu_hrus[i][2] \in Range(self.hrus)
AllMapped == \A i \in 1..S : Mapped(i)
Dangling == \E i \in 1..S : ~Mapped(i)

Returned == pc = "returned"
Raised == pc = "raised"

Incoming(t, node, port) ==
    Cardinality({i \in DOMAIN t.links :
                    t.links[i].to_node = node /\ t.links[i].to_input = port})

TransportNodes(t) == {n \in Range(t.nodes) : n.process = "ConstituentRouting"}

(* C1 as stated: with every source unit mapped to a response unit of the   *)
(* descriptor, the returned Template has 1 + C + 4R + S nodes.             *)
C1_NodeCountPerSourceUnit ==
    (Returned /\ AllMapped) => Len(returned.nodes) = 1 + C + 4 * R + S

(* C1 amended: with every source unit mapped to a response unit of the     *)
(* descriptor, the returned Template has 1 + C + 4R + C*S nodes: one       *)
(* generation node per (constituent, source unit) pair.                    *)
C1_NodeCountPerPair ==
    (Returned /\ AllMapped) =>
        /\ Len(returned.nodes) = 1 + C + 4 * R + C * S
        /\ Cardinality(Range(returned.nodes)) = Len(returned.nodes)
        /\ Cardinality({n \in Range(returned.nodes) :
                            n.process = "ConstituentGeneration"}) = C * S

C1_Witness ==
    Returned /\ AllMapped /\ R = 1 /\ C = 2 /\ S = 2 /\ Len(returned.nodes) = 11

(* C2: a descriptor with a dangling mapping makes get_template fail with   *)
(* StructureError, and nothing is returned to the caller.                  *)
C2_DanglingRejected ==
    (Dangling /\ (Returned \/ Raised)) =>
        (Raised /\ raised = "StructureError" /\ returned = OWTemplate)

(* C3: in the returned Template the routing node's lateral port has one    *)
(* incoming link per response unit, each transport node's inflow port has  *)
(* one per response unit, and each transport node's lateralLoad port has   *)
(* one per source unit of the descriptor.                                  *)
C3_PortAggregation ==
    Returned =>
        /\ Incoming(returned, RoutingNode(self.routing), "lateral") = R
        /\ Cardinality(TransportNodes(returned)) = C
        /\ \A n \in TransportNodes(returned) :
              /\ Incoming(returned, n, "inflow") = R
              /\ Incoming(returned, n, "lateralLoad") = S

(* C7: a missing key fails with ResolutionError, the error reaches the     *)
(* caller of get_template and no Template is returned.                     *)
C7_ResolutionError ==
    Raised => (raised = "ResolutionError" /\ returned = OWTemplate)

LinkDone == pc \in {"linked", "link_raised"}

(* the label of a vertex, by catchment, role, constituent and model name   *)
FlowLabel(id, name) == ToString(id) \o "-FlowRouting (" \o name \o ")"
ConstituentLabel(id, c, name) ==
    ToString(id) \o "-ConstituentRouting-" \o c \o " (" \o name \o ")"

(* C4: link_catchments adds 1 + C edges, each from the label resolved with *)
(* the downstream id to the same label resolved with the upstream id, with *)
(* src=['outflow'], dest=['inflow'] for flow and src=['outflowLoad'],      *)
(* dest=['inflowLoad'] for every constituent.                              *)
C4_LinkAddsEdges ==
    LinkDone =>
        /\ raised = ""
        /\ Len(graph) = linked.before + 1 + C
        /\ LET e == graph[linked.before + 1]
           IN /\ e.src_node = FlowLabel(linked.downstream, self.routing.name)
              /\ e.dest_node = FlowLabel(linked.upstream, self.routing.name)
              /\ e.src = <<"outflow">> /\ e.dest = <<"inflow">>
        /\ \A i \in 1..C :
              LET e == graph[linked.before + 1 + i]
                  c == self.constituents[i]
              IN /\ e.src_node = ConstituentLabel(linked.downstream, c, self.transport.name)
                 /\ e.dest_node = ConstituentLabel(linked.upstream, c, self.transport.name)
                 /\ e.src = <<"outflowLoad">> /\ e.dest = <<"inflowLoad">>

(* C10: for every constituent whose transport model get_template resolves, *)
(* the ConstituentRouting vertices link_catchments names carry the name of *)
(* that resolved model, whatever the kind of the transport provider.       *)
C10_LabelsNameResolvedModel ==
    LinkDone =>
        \A i \in 1..C :
            LET c == self.constituents[i]
                r == model_for(self.transport, <<c>>)
            IN r.raised = "" =>
                 \E k \in (linked.before + 1)..Len(graph) :
                    /\ graph[k].src_node =
                          ConstituentLabel(linked.downstream, c, r.value.name)
                    /\ graph[k].dest_node =
                          ConstituentLabel(linked.upstream, c, r.value.name)

Resolved == pc = "resolved"

(* C5: model_for returns the provider called with the keys if callable, else *)
(* provider[keys[0]] for a subscriptable one, else the provider itself;    *)
(* callable comes first; the descriptor is left as it was.                 *)
C5_ModelForResolution ==
    Resolved =>
        LET p == query.provider
            a == query.args
            r == query.result
        IN /\ hasattr(p, "__call__") => r = Return(Invoke(p, a))
           /\ (~hasattr(p, "__call__") /\ hasattr(p, "__getitem__")
                  /\ a[1] \in DOMAIN p.items) => r = Return(p.items[a[1]])
           /\ (~hasattr(p, "__call__") /\ ~hasattr(p, "__getitem__")) => r = Return(p)
           /\ self = query.descriptor

C5_Witness ==
    /\ Resolved
    /\ self # Constructed
    /\ hasattr(query.provider, "__call__")
    /\ hasattr(query.provider, "__getitem__")
    /\ query.args[1] \in DOMAIN query.provider.items
    /\ query.result.value # query.provider.items[query.args[1]]

(* node and link identities without the model, as the scenario names them  *)
Role(n) == <<n.process, n.hru, n.constituent, n.lu, n.component>>
Wire(l) == <<Role(l.from_node), l.from_output, Role(l.to_node), l.to_input>>

Scenario ==
    /\ self.hrus = <<"H1">>
    /\ self.cgu_hrus = << <<"S1", "H1">> >>
    /\ self.constituents = <<"N">>

Routing_ == <<"FlowRouting", "", "", "", "">>
Transport_N == <<"ConstituentRouting", "", "N", "", "">>
Runoff_H1 == <<"RR", "H1", "", "", "">>
Scale_H1_Runoff == <<"ArealScale", "H1", "", "", "Runoff">>
Scale_H1_Quickflow == <<"ArealScale", "H1", "", "", "Quickflow">>
Scale_H1_Baseflow == <<"ArealScale", "H1", "", "", "Baseflow">>
Generation_N_S1 == <<"ConstituentGeneration", "", "N", "S1", "">>

ScenarioNodes ==
    {Routing_, Transport_N, Runoff_H1, Scale_H1_Runoff, Scale_H1_Quickflow,
     Scale_H1_Baseflow, Generation_N_S1}

ScenarioLinks ==
    {<<Routing_, "outflow", Transport_N, "outflow">>,
     <<Runoff_H1, "runoff", Scale_H1_Runoff, "input">>,
     <<Runoff_H1, "quickflow", Scale_H1_Quickflow, "input">>,
     <<Runoff_H1, "baseflow", Scale_H1_Baseflow, "input">>,
     <<Scale_H1_Runoff, "outflow", Routing_, "lateral">>,
     <<Scale_H1_Runoff, "outflow", Transport_N, "inflow">>,
     <<Scale_H1_Quickflow, "outflow", Generation_N_S1, "quickflow">>,
     <<Scale_H1_Baseflow, "outflow", Generation_N_S1, "baseflow">>,
     <<Generation_N_S1, "totalLoad", Transport_N, "lateralLoad">>}

(* C6: for hrus [H1], cgu_hrus {S1: H1}, constituents [N] the returned     *)
(* Template has exactly the 7 nodes and the 9 links of the scenario.       *)
C6_EndToEndScenario ==
    (Returned /\ Scenario) =>
        /\ Len(returned.nodes) = 7
        /\ {Role(n) : n \in Range(returned.nodes)} = ScenarioNodes
        /\ Len(returned.links) = 9
        /\ {Wire(l) : l \in Range(returned.links)} = ScenarioLinks

C6_Witness == Returned /\ Scenario /\ Len(returned.links) = 9

(* C8: a second call on an equal descriptor returns the same set of node   *)
(* identities and the same set of links as the first.                      *)
C8_Determinism ==
    (Returned /\ call = 2) =>
        /\ Range(returned.nodes) = Range(prev.nodes)
        /\ Range(returned.links) = Range(prev.links)

C8_Witness ==
    /\ Returned /\ call = 2
    /\ loc.items # self.cgu_hrus
    /\ returned.nodes # prev.nodes
    /\ returned.links # prev.links

(* C9: every link of the Template under construction joins two nodes that  *)
(* are already in it, and the transport node looked up at line 62 was made *)
(* by the first loop.                                                      *)
C9_LinkEndpointsExist ==
    /\ \A l \in Range(template.links) :
          l.from_node \in Range(template.nodes) /\ l.to_node \in Range(template.nodes)
    /\ pc = "L62" =>
          /\ loc.con \in DOMAIN transport
          /\ transport[loc.con] \in Range(template.nodes)
    /\ pc = "L48" => DOMAIN transport = Range(self.constituents)

C9_Witness ==
    /\ pc = "L64_next" /\ loc.i_cgu = 2
    /\ hasattr(self.transport, "__call__")
    /\ template.links # <<>>
    /\ template.links[Len(template.links)].to_node = transport[loc.con]

====
